---------------------------- MODULE Spec2Model ----------------------------
(***************************************************************************)
(* A model of metered_pipe/metered_pipe.py: the Writer CW, the Reader CR,  *)
(* the bounded queue they share and the Reader's metering log.             *)
(*                                                                         *)
(* Time.  time.time() is modelled by a shared non-decreasing integer clock *)
(* `now`, counted in units of 1e-4 s, the value of                         *)
(* SYSTEM_SEND_MAX_FREQUENCY.  Every call of time.time() is a read that    *)
(* returns some value >= the previous reading.  INTERVAL_ON_QUEUE_FULL     *)
(* (1e-5 s) is a tenth of a unit, so time.sleep(INTERVAL_ON_QUEUE_FULL)    *)
(* lets the clock advance by zero or more units.                           *)
(*                                                                         *)
(* Payloads.  The k-th payload passed to send() (counting from 0) is the   *)
(* number k, as in the tests' `for x in range(n): cw.send(x)`, so that any *)
(* loss, duplication or reordering is visible.                             *)
(*                                                                         *)
(* Exceptions.  An exception that leaves recv() (the AssertionError of     *)
(* fetch, the IndexError of buffer[0]) ends the Reader; the RuntimeError   *)
(* of CW.__del__ is recorded in cw_error.  The state written before the    *)
(* raise is kept as the code leaves it.                                    *)
(*                                                                         *)
(* Specifications.  Spec starts from the pair MeteredPipe(duplex=False,    *)
(* q=Queue(maxsize=Capacity)) has returned and runs every method of CW and *)
(* CR.  FactorySpec starts before the call of MeteredPipe, with any        *)
(* arguments, and goes on with the pair if one is returned.  TwoWriterSpec *)
(* adds a second CW on the same queue, whose payloads are -1, -2, ...      *)
(***************************************************************************)
EXTENDS Integers, Sequences, FiniteSets, TLC

\* ------------------------------------------------------------- bounds
\* Number of send() calls explored.
MaxSend == 3
\* maxsize of the queue handed to MeteredPipe(q=...), in batches.
Capacity == 1
\* Last clock value explored.
MaxTime == 2

\* ---------------------------------------------------------- constants
RETRY_FLUSH_ON_QUEUE_FULL == 10
\* 1e-4 s, the unit of the clock.
SYSTEM_SEND_MAX_FREQUENCY == 1
\* 2**12, the maxsize of the queue MeteredPipe creates when given none.
PIPE_BUFFER_SIZE == 4096

VARIABLES
    q,                      \* queue.Queue: the batches in it, oldest first
    q_unfinished,           \* queue.Queue.unfinished_tasks
    cw_n,                   \* CW.n
    cw_buffer,              \* CW.buffer: sequence of (obj, s0)
    cw_last_successful_put, \* CW.last_successful_put
    cw_pc,                  \* "idle", "flush" (inside flush's loop), "deleted"
    cw_retry,               \* the loop variable `retry` of CW.flush
    cw_call,                \* the Writer call in progress: "none", "send", "flush"
    cw_error,               \* exception raised by the Writer: "none", "RuntimeError"
    cr_buffer,              \* CR.buffer: sequence of obj
    cr_log,                 \* CR._log: sequence of metering records
    cr_pc,                  \* "idle", "get" (recv is inside fetch, at q.get)
    cr_t0,                  \* the local t0 of CR.fetch
    cr_error,               \* exception that left recv(): "none", "AssertionError", "IndexError"
    now,                    \* the last reading of time.time()
    \* history, written by the callers of the API
    sent,                   \* payloads passed to send(), in call order
    received,               \* payloads returned by recv(), in call order
    fetched,                \* every envelope taken off the queue, in order
    cb_log,                 \* records handed to the callback of flush_log_using, in order
    flush_snap,             \* buffer, n, last_successful_put when the running flush began
    last_op,                \* how the last Writer call ended: "none", "send" (buffered
                            \* only), "ok" (batch enqueued), "abandoned" (flush gave up
                            \* on a non-empty buffer), "abandoned_empty" (on an empty one)
    abandoned_sent,         \* Len(sent) when a flush was last abandoned with a
                            \* non-empty buffer; 0 if none was
    \* the call MeteredPipe(duplex, q)
    mp_duplex,              \* the argument duplex
    mp_q,                   \* the argument q: "none" (None) or "given"
    mp_pc,                  \* "uncalled", "returned", "NotImplementedError"
    q_made,                 \* number of queues MeteredPipe has created
    q_maxsize,              \* maxsize of the queue the endpoints were built on
    cr_q,                   \* CR.q: "none" (no Reader), "given", "made"
    cw_q,                   \* CW.q: "none" (no Writer), "given", "made"
    \* a second Writer CW(q) on the same queue; its payloads are -1, -2, ...
    cw2_n,                  \* its n
    cw2_buffer,             \* its buffer
    cw2_last_successful_put,\* its last_successful_put
    cw2_pc,                 \* "absent" (not constructed), "idle", "flush"
    cw2_retry               \* the loop variable `retry` of its flush

vars == <<q, q_unfinished, cw_n, cw_buffer, cw_last_successful_put, cw_pc, cw_retry,
          cw_call, cw_error, cr_buffer, cr_log, cr_pc, cr_t0, cr_error, now,
          sent, received, fetched, cb_log, flush_snap, last_op, abandoned_sent,
          mp_duplex, mp_q, mp_pc, q_made, q_maxsize, cr_q, cw_q,
          cw2_n, cw2_buffer, cw2_last_successful_put, cw2_pc, cw2_retry>>

writer_vars == <<cw_n, cw_buffer, cw_last_successful_put, cw_pc, cw_retry, cw_call,
                 cw_error, sent, flush_snap, last_op, abandoned_sent>>

reader_vars == <<cr_buffer, cr_log, cr_pc, cr_t0, cr_error, received, fetched, cb_log>>

factory_vars == <<mp_duplex, mp_q, mp_pc, q_made, q_maxsize, cr_q, cw_q>>

writer2_vars == <<cw2_n, cw2_buffer, cw2_last_successful_put, cw2_pc, cw2_retry>>

\* ------------------------------------------------------------ helpers
\* The readings of k successive time.time() calls, the first not before lo.
RECURSIVE Stamps(_, _)
Stamps(k, lo) ==
    IF k = 0 THEN {<<>>}
    ELSE UNION {{<<t>> \o s : s \in Stamps(k - 1, t)} : t \in lo..MaxTime}

\* The clock after the readings st, which began at lo.
LastOf(st, lo) == IF st = <<>> THEN lo ELSE st[Len(st)]

\* Envelopes with the numbering restarted at 0 for every batch.
Envelopes_FromZero(buffer, start, st) ==
    [i \in 1..Len(buffer) |->
        [obj |-> buffer[i].obj, n |-> i - 1, s0 |-> buffer[i].s0, s1 |-> st[i]]]

\* Envelopes stamped, all of them, with the send time of the first buffered entry.
Envelopes_StampsFirstSend(buffer, start, st) ==
    [i \in 1..Len(buffer) |->
        [obj |-> buffer[i].obj, n |-> start + (i - 1), s0 |-> buffer[i].s0,
         s1 |-> buffer[1].s0]]

\* The batch flush() builds:
\*   [(obj, n, s0, time.time()) for (n, (obj, s0)) in enumerate(self.buffer, start=self.n)]
Envelopes(buffer, start, st) ==
    [i \in 1..Len(buffer) |->
        [obj |-> buffer[i].obj, n |-> start + (i - 1), s0 |-> buffer[i].s0, s1 |-> st[i]]]

\* The Writer state a flush() starts from, kept while it runs for comparison
\* when it ends.
NoSnapshot == [buffer |-> <<>>, n |-> 0, lsp |-> 0]

\* ---------------------------------------------------------------- Init
\* The fields CW.__init__ and CR.__init__ set, over an empty queue, and no
\* second Writer.  The clock starts at a time not below
\* SYSTEM_SEND_MAX_FREQUENCY (time.time() is seconds since 1970).
EndpointsInit ==
    /\ q = <<>>
    /\ q_unfinished = 0
    /\ cw_n = 0
    /\ cw_buffer = <<>>
    /\ cw_last_successful_put = 0
    /\ cw_pc = "idle"
    /\ cw_retry = 0
    /\ cw_call = "none"
    /\ cw_error = "none"
    /\ cr_buffer = <<>>
    /\ cr_log = <<>>
    /\ cr_pc = "idle"
    /\ cr_t0 = 0
    /\ cr_error = "none"
    /\ now = SYSTEM_SEND_MAX_FREQUENCY
    /\ sent = <<>>
    /\ received = <<>>
    /\ fetched = <<>>
    /\ cb_log = <<>>
    /\ flush_snap = NoSnapshot
    /\ last_op = "none"
    /\ abandoned_sent = 0
    /\ cw2_n = 0
    /\ cw2_buffer = <<>>
    /\ cw2_last_successful_put = 0
    /\ cw2_pc = "absent"
    /\ cw2_retry = 0

\* The state after (cr, cw) = MeteredPipe(duplex=False, q=queue.Queue(maxsize=Capacity)).
Init ==
    /\ EndpointsInit
    /\ mp_duplex = FALSE
    /\ mp_q = "given"
    /\ mp_pc = "returned"
    /\ q_made = 0
    /\ q_maxsize = Capacity
    /\ cr_q = "given"
    /\ cw_q = "given"

\* -------------------------------------------------------------- Writer
\* The test of send() with <= for <.
Coalesce_Inclusive(s0, lsp) == s0 <= lsp + SYSTEM_SEND_MAX_FREQUENCY

\* The test of send(): s0 < last_successful_put + SYSTEM_SEND_MAX_FREQUENCY
\* means "buffer only".
Coalesce(s0, lsp) == s0 < lsp + SYSTEM_SEND_MAX_FREQUENCY

\* CW.send(obj) up to the call of flush(): stamp, append, and either return
\* or enter flush's loop.
Send ==
    /\ cw_pc = "idle"
    /\ Len(sent) < MaxSend
    /\ \E s0 \in now..MaxTime :
        LET obj == Len(sent)
            buf == Append(cw_buffer, [obj |-> obj, s0 |-> s0])
        IN /\ now' = s0
           /\ sent' = Append(sent, obj)
           /\ cw_buffer' = buf
           /\ IF Coalesce(s0, cw_last_successful_put)
              THEN /\ last_op' = "send"
                   /\ UNCHANGED <<cw_pc, cw_call, flush_snap>>
              ELSE /\ cw_pc' = "flush"
                   /\ cw_call' = "send"
                   /\ flush_snap' = [buffer |-> buf, n |-> cw_n,
                                     lsp |-> cw_last_successful_put]
                   /\ UNCHANGED last_op
    /\ UNCHANGED <<q, q_unfinished, cw_n, cw_last_successful_put, cw_retry, cw_error,
                   abandoned_sent>>
    /\ UNCHANGED reader_vars
    /\ UNCHANGED <<factory_vars, writer2_vars>>

\* The caller's own flush(): enter the loop.
Flush ==
    /\ cw_pc = "idle"
    /\ cw_pc' = "flush"
    /\ cw_call' = "flush"
    /\ flush_snap' = [buffer |-> cw_buffer, n |-> cw_n, lsp |-> cw_last_successful_put]
    /\ UNCHANGED <<q, q_unfinished, cw_n, cw_buffer, cw_last_successful_put, cw_retry,
                   cw_error, now, sent, last_op, abandoned_sent>>
    /\ UNCHANGED reader_vars
    /\ UNCHANGED <<factory_vars, writer2_vars>>

\* FlushPut without its return: the loop goes on after a successful put.
FlushPut_NoReturn ==
    /\ cw_pc = "flush"
    /\ cw_retry < RETRY_FLUSH_ON_QUEUE_FULL
    /\ Len(q) < q_maxsize
    /\ \E st \in Stamps(Len(cw_buffer), now) :
       \E t \in LastOf(st, now)..MaxTime :
          /\ q' = Append(q, Envelopes(cw_buffer, cw_n, st))
          /\ cw_last_successful_put' = t
          /\ now' = t
    /\ q_unfinished' = q_unfinished + 1
    /\ cw_n' = cw_n + Len(cw_buffer)
    /\ cw_buffer' = <<>>
    /\ IF cw_retry + 1 < RETRY_FLUSH_ON_QUEUE_FULL
       THEN /\ cw_retry' = cw_retry + 1
            /\ UNCHANGED <<cw_pc, cw_call, flush_snap, last_op>>
       ELSE /\ cw_pc' = "idle"
            /\ cw_call' = "none"
            /\ cw_retry' = 0
            /\ flush_snap' = NoSnapshot
            /\ last_op' = "ok"
    /\ UNCHANGED <<cw_error, sent, abandoned_sent>>
    /\ UNCHANGED reader_vars
    /\ UNCHANGED <<factory_vars, writer2_vars>>

\* FlushPut that advances n by one per batch, not by the batch size.
FlushPut_CountsBatches ==
    /\ cw_pc = "flush"
    /\ cw_retry < RETRY_FLUSH_ON_QUEUE_FULL
    /\ Len(q) < q_maxsize
    /\ \E st \in Stamps(Len(cw_buffer), now) :
       \E t \in LastOf(st, now)..MaxTime :
          /\ q' = Append(q, Envelopes(cw_buffer, cw_n, st))
          /\ cw_last_successful_put' = t
          /\ now' = t
    /\ q_unfinished' = q_unfinished + 1
    /\ cw_n' = cw_n + 1
    /\ cw_buffer' = <<>>
    /\ cw_pc' = "idle"
    /\ cw_call' = "none"
    /\ cw_retry' = 0
    /\ flush_snap' = NoSnapshot
    /\ last_op' = "ok"
    /\ UNCHANGED <<cw_error, sent, abandoned_sent>>
    /\ UNCHANGED reader_vars
    /\ UNCHANGED <<factory_vars, writer2_vars>>

\* One pass of flush's loop in which q.put(batch, block=False) succeeds:
\* the else branch of the try, which returns.
FlushPut ==
    /\ cw_pc = "flush"
    /\ cw_retry < RETRY_FLUSH_ON_QUEUE_FULL
    /\ Len(q) < q_maxsize
    /\ \E st \in Stamps(Len(cw_buffer), now) :
       \E t \in LastOf(st, now)..MaxTime :
          /\ q' = Append(q, Envelopes(cw_buffer, cw_n, st))
          /\ cw_last_successful_put' = t
          /\ now' = t
    /\ q_unfinished' = q_unfinished + 1
    /\ cw_n' = cw_n + Len(cw_buffer)
    /\ cw_buffer' = <<>>
    /\ cw_pc' = "idle"
    /\ cw_call' = "none"
    /\ cw_retry' = 0
    /\ flush_snap' = NoSnapshot
    /\ last_op' = "ok"
    /\ UNCHANGED <<cw_error, sent, abandoned_sent>>
    /\ UNCHANGED reader_vars
    /\ UNCHANGED <<factory_vars, writer2_vars>>

\* FlushFull that empties the buffer when it gives up.
FlushFull_DropsBuffer ==
    /\ cw_pc = "flush"
    /\ cw_retry < RETRY_FLUSH_ON_QUEUE_FULL
    /\ Len(q) >= q_maxsize
    /\ \E st \in Stamps(Len(cw_buffer), now) :
       \E t \in LastOf(st, now)..MaxTime :
          /\ now' = t
          /\ UNCHANGED cw_last_successful_put
    /\ IF cw_retry + 1 < RETRY_FLUSH_ON_QUEUE_FULL
       THEN /\ cw_retry' = cw_retry + 1
            /\ UNCHANGED <<cw_pc, cw_call, flush_snap, last_op, abandoned_sent, cw_buffer>>
       ELSE /\ cw_pc' = "idle"
            /\ cw_call' = "none"
            /\ cw_retry' = 0
            /\ flush_snap' = NoSnapshot
            /\ last_op' = IF cw_buffer # <<>> THEN "abandoned" ELSE "abandoned_empty"
            /\ abandoned_sent' = IF cw_buffer # <<>> THEN Len(sent) ELSE abandoned_sent
            /\ cw_buffer' = <<>>
    /\ UNCHANGED <<q, q_unfinished, cw_n, cw_error, sent>>
    /\ UNCHANGED reader_vars
    /\ UNCHANGED <<factory_vars, writer2_vars>>

\* FlushFull that stamps last_successful_put on a failed pass as well.
FlushFull_StampsPut ==
    /\ cw_pc = "flush"
    /\ cw_retry < RETRY_FLUSH_ON_QUEUE_FULL
    /\ Len(q) >= q_maxsize
    /\ \E st \in Stamps(Len(cw_buffer), now) :
       \E t \in LastOf(st, now)..MaxTime :
          /\ now' = t
          /\ cw_last_successful_put' = t
    /\ IF cw_retry + 1 < RETRY_FLUSH_ON_QUEUE_FULL
       THEN /\ cw_retry' = cw_retry + 1
            /\ UNCHANGED <<cw_pc, cw_call, flush_snap, last_op, abandoned_sent, cw_buffer>>
       ELSE /\ cw_pc' = "idle"
            /\ cw_call' = "none"
            /\ cw_retry' = 0
            /\ flush_snap' = NoSnapshot
            /\ last_op' = IF cw_buffer # <<>> THEN "abandoned" ELSE "abandoned_empty"
            /\ abandoned_sent' = IF cw_buffer # <<>> THEN Len(sent) ELSE abandoned_sent
            /\ cw_buffer' = cw_buffer
    /\ UNCHANGED <<q, q_unfinished, cw_n, cw_error, sent>>
    /\ UNCHANGED reader_vars
    /\ UNCHANGED <<factory_vars, writer2_vars>>

\* One pass of flush's loop in which q.put raises queue.Full: the batch is
\* built (the clock is read once per buffered entry), the put fails, the
\* Writer sleeps; after the last pass flush returns.  The batch is dropped, so
\* of its clock readings and the sleep only the time they end at is kept.
FlushFull ==
    /\ cw_pc = "flush"
    /\ cw_retry < RETRY_FLUSH_ON_QUEUE_FULL
    /\ Len(q) >= q_maxsize
    /\ \E t \in now..MaxTime : now' = t
    /\ IF cw_retry + 1 < RETRY_FLUSH_ON_QUEUE_FULL
       THEN /\ cw_retry' = cw_retry + 1
            /\ UNCHANGED <<cw_pc, cw_call, flush_snap, last_op, abandoned_sent>>
       ELSE /\ cw_pc' = "idle"
            /\ cw_call' = "none"
            /\ cw_retry' = 0
            /\ flush_snap' = NoSnapshot
            /\ last_op' = IF cw_buffer # <<>> THEN "abandoned" ELSE "abandoned_empty"
            /\ abandoned_sent' = IF cw_buffer # <<>> THEN Len(sent) ELSE abandoned_sent
    /\ UNCHANGED <<q, q_unfinished, cw_n, cw_buffer, cw_last_successful_put, cw_error,
                   sent>>
    /\ UNCHANGED reader_vars
    /\ UNCHANGED <<factory_vars, writer2_vars>>

\* Teardown with the test of the buffer inverted.
Teardown_Inverted ==
    /\ cw_pc = "idle"
    /\ cw_pc' = "deleted"
    /\ cw_error' = IF cw_buffer = <<>> THEN "RuntimeError" ELSE "none"
    /\ UNCHANGED <<q, q_unfinished, cw_n, cw_buffer, cw_last_successful_put, cw_retry,
                   cw_call, now, sent, flush_snap, last_op, abandoned_sent>>
    /\ UNCHANGED reader_vars
    /\ UNCHANGED <<factory_vars, writer2_vars>>

\* CW.__del__: the Writer is discarded between calls.
Teardown ==
    /\ cw_pc = "idle"
    /\ cw_pc' = "deleted"
    /\ cw_error' = IF cw_buffer # <<>> THEN "RuntimeError" ELSE "none"
    /\ UNCHANGED <<q, q_unfinished, cw_n, cw_buffer, cw_last_successful_put, cw_retry,
                   cw_call, now, sent, flush_snap, last_op, abandoned_sent>>
    /\ UNCHANGED reader_vars
    /\ UNCHANGED <<factory_vars, writer2_vars>>

\* -------------------------------------------------------------- Reader
\* The loop of fetch without the append to the log.
Unpack_SkipsLog(batch, st, t0, buffer, log) ==
    [buffer |-> buffer \o [i \in 1..Len(batch) |-> batch[i].obj],
     log |-> log, failed |-> FALSE, reads |-> Len(batch)]

\* The for loop of fetch over the batch, with the clock readings st:
\*   self.buffer.append(obj); t1 = time.time(); assert n == len(self._log);
\*   self._log.append({'s0': s0, 's1': s1, 't0': t0, 't1': t1})
\* The result is the buffer and the log when the loop ends, whether it ended
\* by a failed assert (after that envelope's append to the buffer), and how
\* many times the clock was read.
RECURSIVE Unpack(_, _, _, _, _)
Unpack(batch, st, t0, buffer, log) ==
    IF batch = <<>>
    THEN [buffer |-> buffer, log |-> log, failed |-> FALSE, reads |-> 0]
    ELSE LET e == Head(batch)
             buf == Append(buffer, e.obj)
             t1 == Head(st)
         IN IF e.n # Len(log)
            THEN [buffer |-> buf, log |-> log, failed |-> TRUE, reads |-> 1]
            ELSE LET r == Unpack(Tail(batch), Tail(st), t0, buf,
                                 Append(log, [s0 |-> e.s0, s1 |-> e.s1,
                                              t0 |-> t0, t1 |-> t1]))
                 IN [r EXCEPT !.reads = r.reads + 1]

\* recv() returning the newest buffered payload, buffer[-1].
RecvObj_Newest(buffer) == buffer[Len(buffer)]

\* The end of recv(): obj = self.buffer[0]; self.buffer = self.buffer[1:];
\* return obj.
RecvObj(buffer) == Head(buffer)

\* recv() that leaves the returned payload in the buffer.
RecvRest_Keeps(buffer) == buffer

RecvRest(buffer) == Tail(buffer)

\* recv() while the delivery buffer holds a payload.
Recv ==
    /\ cr_pc = "idle"
    /\ cr_error = "none"
    /\ cr_buffer # <<>>
    /\ received' = Append(received, RecvObj(cr_buffer))
    /\ cr_buffer' = RecvRest(cr_buffer)
    /\ UNCHANGED <<cr_log, cr_pc, cr_t0, cr_error, fetched, cb_log>>
    /\ UNCHANGED <<q, q_unfinished, now>>
    /\ UNCHANGED writer_vars
    /\ UNCHANGED <<factory_vars, writer2_vars>>

\* recv() with an empty delivery buffer: enters fetch(), reads t0, and
\* arrives at the blocking q.get.
RecvFetch ==
    /\ cr_pc = "idle"
    /\ cr_error = "none"
    /\ cr_buffer = <<>>
    /\ \E t \in now..MaxTime :
          /\ cr_t0' = t
          /\ now' = t
    /\ cr_pc' = "get"
    /\ UNCHANGED <<cr_buffer, cr_log, cr_error, received, fetched, cb_log>>
    /\ UNCHANGED <<q, q_unfinished>>
    /\ UNCHANGED writer_vars
    /\ UNCHANGED <<factory_vars, writer2_vars>>

\* q.get(block=True) returns a batch: the loop of fetch, q.task_done(), and
\* the rest of recv().  A failed assert leaves fetch before task_done; an
\* empty batch leaves recv at self.buffer[0] with nothing to return.
FetchGet ==
    /\ cr_pc = "get"
    /\ q # <<>>
    /\ LET batch == Head(q) IN
       \E st \in Stamps(Len(batch), now) :
          LET r == Unpack(batch, st, cr_t0, cr_buffer, cr_log) IN
          /\ q' = Tail(q)
          /\ fetched' = fetched \o batch
          /\ now' = IF r.reads = 0 THEN now ELSE st[r.reads]
          /\ cr_log' = r.log
          /\ cr_pc' = "idle"
          /\ cr_t0' = 0
          /\ IF r.failed
             THEN /\ cr_error' = "AssertionError"
                  /\ cr_buffer' = r.buffer
                  /\ UNCHANGED <<q_unfinished, received>>
             ELSE /\ q_unfinished' = q_unfinished - 1
                  /\ IF r.buffer = <<>>
                     THEN /\ cr_error' = "IndexError"
                          /\ UNCHANGED <<cr_buffer, received>>
                     ELSE /\ received' = Append(received, RecvObj(r.buffer))
                          /\ cr_buffer' = RecvRest(r.buffer)
                          /\ UNCHANGED cr_error
    /\ UNCHANGED cb_log
    /\ UNCHANGED writer_vars
    /\ UNCHANGED <<factory_vars, writer2_vars>>

\* flush_log_using with pop() for popleft(): newest record first.
FlushLog_NewestFirst ==
    /\ cr_pc = "idle"
    /\ cr_error = "none"
    /\ cb_log' = cb_log \o [i \in 1..Len(cr_log) |-> cr_log[Len(cr_log) + 1 - i]]
    /\ cr_log' = <<>>
    /\ UNCHANGED <<cr_buffer, cr_pc, cr_t0, cr_error, received, fetched>>
    /\ UNCHANGED <<q, q_unfinished, now>>
    /\ UNCHANGED writer_vars
    /\ UNCHANGED <<factory_vars, writer2_vars>>

\* flush_log_using that stops with one record left: while len(self._log) > 1.
FlushLog_KeepsLast ==
    /\ cr_pc = "idle"
    /\ cr_error = "none"
    /\ cb_log' = cb_log \o [i \in 1..(Len(cr_log) - 1) |-> cr_log[i]]
    /\ cr_log' = IF cr_log = <<>> THEN <<>> ELSE <<cr_log[Len(cr_log)]>>
    /\ UNCHANGED <<cr_buffer, cr_pc, cr_t0, cr_error, received, fetched>>
    /\ UNCHANGED <<q, q_unfinished, now>>
    /\ UNCHANGED writer_vars
    /\ UNCHANGED <<factory_vars, writer2_vars>>

\* flush_log_using(f): while self._log: f(self._log.popleft()).
FlushLog ==
    /\ cr_pc = "idle"
    /\ cr_error = "none"
    /\ cb_log' = cb_log \o cr_log
    /\ cr_log' = <<>>
    /\ UNCHANGED <<cr_buffer, cr_pc, cr_t0, cr_error, received, fetched>>
    /\ UNCHANGED <<q, q_unfinished, now>>
    /\ UNCHANGED writer_vars
    /\ UNCHANGED <<factory_vars, writer2_vars>>

\* ---------------------------------------------------------------- Spec
Next ==
    \/ Send
    \/ Flush
    \/ FlushPut
    \/ FlushFull
    \/ Teardown
    \/ Recv
    \/ RecvFetch
    \/ FetchGet
    \/ FlushLog

Spec == Init /\ [][Next]_vars

\* A caller that retries: flush() is called again while the Writer's buffer
\* holds something, and not otherwise.
RetryFlush ==
    /\ cw_buffer # <<>>
    /\ Flush

WriterPass == FlushPut \/ FlushFull

ReaderStep == Recv \/ RecvFetch \/ FetchGet

\* Writer and Reader as in the backpressure scenario: the Writer process sends and
\* retries flush() until its buffer is empty, the Reader process keeps calling
\* recv(); neither process stops inside a call, so each gets its turn.
RetryNext ==
    \/ Send
    \/ RetryFlush
    \/ FlushPut
    \/ FlushFull
    \/ Recv
    \/ RecvFetch
    \/ FetchGet

RetrySpec ==
    /\ Init
    /\ [][RetryNext]_vars
    /\ WF_vars(RetryFlush)
    /\ WF_vars(WriterPass)
    /\ WF_vars(ReaderStep)

\* The tests' use of the pipe: send() and recv() only, flush() never called by
\* the caller.
SendOnlyNext ==
    \/ Send
    \/ FlushPut
    \/ FlushFull
    \/ Recv
    \/ RecvFetch
    \/ FetchGet

SendOnlySpec == Init /\ [][SendOnlyNext]_vars

\* ------------------------------------------------------ the factory
\* MeteredPipe(duplex, q) that skips the test of duplex.
MeteredPipe_IgnoresDuplex ==
    /\ mp_pc = "uncalled"
    /\ q_made' = IF mp_q = "none" THEN q_made + 1 ELSE q_made
    /\ q_maxsize' = IF mp_q = "none" THEN PIPE_BUFFER_SIZE ELSE Capacity
    /\ cr_q' = IF mp_q = "none" THEN "made" ELSE "given"
    /\ cw_q' = IF mp_q = "none" THEN "made" ELSE "given"
    /\ q' = <<>>
    /\ cr_buffer' = <<>>
    /\ cr_log' = <<>>
    /\ cw_n' = 0
    /\ cw_buffer' = <<>>
    /\ cw_last_successful_put' = 0
    /\ mp_pc' = "returned"
    /\ UNCHANGED <<mp_duplex, mp_q, q_unfinished, now>>
    /\ UNCHANGED <<cw_pc, cw_retry, cw_call, cw_error, sent, flush_snap, last_op,
                   abandoned_sent>>
    /\ UNCHANGED <<cr_pc, cr_t0, cr_error, received, fetched, cb_log>>
    /\ UNCHANGED writer2_vars

\* MeteredPipe(duplex, q): if duplex: raise NotImplementedError; if not q:
\* q = Manager().Queue(maxsize=PIPE_BUFFER_SIZE); return (CR(q), CW(q)).
\* A queue given by the caller has maxsize Capacity.
MeteredPipe ==
    /\ mp_pc = "uncalled"
    /\ IF mp_duplex
       THEN /\ mp_pc' = "NotImplementedError"
            /\ UNCHANGED <<q_made, q_maxsize, cr_q, cw_q, q, cr_buffer, cr_log,
                           cw_n, cw_buffer, cw_last_successful_put>>
       ELSE /\ q_made' = IF mp_q = "none" THEN q_made + 1 ELSE q_made
            /\ q_maxsize' = IF mp_q = "none" THEN PIPE_BUFFER_SIZE ELSE Capacity
            /\ cr_q' = IF mp_q = "none" THEN "made" ELSE "given"
            /\ cw_q' = IF mp_q = "none" THEN "made" ELSE "given"
            /\ q' = <<>>
            /\ cr_buffer' = <<>>
            /\ cr_log' = <<>>
            /\ cw_n' = 0
            /\ cw_buffer' = <<>>
            /\ cw_last_successful_put' = 0
            /\ mp_pc' = "returned"
    /\ UNCHANGED <<mp_duplex, mp_q, q_unfinished, now>>
    /\ UNCHANGED <<cw_pc, cw_retry, cw_call, cw_error, sent, flush_snap, last_op,
                   abandoned_sent>>
    /\ UNCHANGED <<cr_pc, cr_t0, cr_error, received, fetched, cb_log>>
    /\ UNCHANGED writer2_vars

\* Before the call: any duplex, a queue given or not, nothing constructed.
FactoryInit ==
    /\ EndpointsInit
    /\ mp_duplex \in BOOLEAN
    /\ mp_q \in {"none", "given"}
    /\ mp_pc = "uncalled"
    /\ q_made = 0
    /\ q_maxsize = 0
    /\ cr_q = "none"
    /\ cw_q = "none"

\* The call of MeteredPipe, then the use the tests make of the pair it returned.
FactoryNext ==
    \/ MeteredPipe
    \/ mp_pc = "returned" /\ Send
    \/ mp_pc = "returned" /\ FlushPut
    \/ mp_pc = "returned" /\ FlushFull
    \/ mp_pc = "returned" /\ Recv
    \/ mp_pc = "returned" /\ RecvFetch
    \/ mp_pc = "returned" /\ FetchGet

FactorySpec == FactoryInit /\ [][FactoryNext]_vars

\* ------------------------------------------------- a second Writer
\* The payloads the second Writer has been given.
Sent2 == cw2_n + Len(cw2_buffer)

\* CW(q) on the queue the pipe already uses: CW.__init__.
NewWriter2 ==
    /\ cw2_pc = "absent"
    /\ cw2_pc' = "idle"
    /\ cw2_n' = 0
    /\ cw2_buffer' = <<>>
    /\ cw2_last_successful_put' = 0
    /\ cw2_retry' = 0
    /\ UNCHANGED <<q, q_unfinished, now>>
    /\ UNCHANGED writer_vars
    /\ UNCHANGED reader_vars
    /\ UNCHANGED factory_vars

\* send(obj) of the second Writer, as Send.
Send2 ==
    /\ cw2_pc = "idle"
    /\ Len(sent) + Sent2 < MaxSend
    /\ \E s0 \in now..MaxTime :
          /\ now' = s0
          /\ cw2_buffer' = Append(cw2_buffer, [obj |-> 0 - (Sent2 + 1), s0 |-> s0])
          /\ cw2_pc' = IF Coalesce(s0, cw2_last_successful_put) THEN "idle" ELSE "flush"
    /\ cw2_retry' = 0
    /\ UNCHANGED <<cw2_n, cw2_last_successful_put>>
    /\ UNCHANGED <<q, q_unfinished>>
    /\ UNCHANGED writer_vars
    /\ UNCHANGED reader_vars
    /\ UNCHANGED factory_vars

\* A pass of the second Writer's flush in which the put succeeds, as FlushPut.
FlushPut2 ==
    /\ cw2_pc = "flush"
    /\ cw2_retry < RETRY_FLUSH_ON_QUEUE_FULL
    /\ Len(q) < q_maxsize
    /\ \E st \in Stamps(Len(cw2_buffer), now) :
       \E t \in LastOf(st, now)..MaxTime :
          /\ q' = Append(q, Envelopes(cw2_buffer, cw2_n, st))
          /\ cw2_last_successful_put' = t
          /\ now' = t
    /\ q_unfinished' = q_unfinished + 1
    /\ cw2_n' = cw2_n + Len(cw2_buffer)
    /\ cw2_buffer' = <<>>
    /\ cw2_pc' = "idle"
    /\ cw2_retry' = 0
    /\ UNCHANGED writer_vars
    /\ UNCHANGED reader_vars
    /\ UNCHANGED factory_vars

\* A pass of the second Writer's flush in which the put raises queue.Full, as
\* FlushFull.
FlushFull2 ==
    /\ cw2_pc = "flush"
    /\ cw2_retry < RETRY_FLUSH_ON_QUEUE_FULL
    /\ Len(q) >= q_maxsize
    /\ \E t \in now..MaxTime : now' = t
    /\ IF cw2_retry + 1 < RETRY_FLUSH_ON_QUEUE_FULL
       THEN /\ cw2_retry' = cw2_retry + 1
            /\ cw2_pc' = "flush"
       ELSE /\ cw2_retry' = 0
            /\ cw2_pc' = "idle"
    /\ UNCHANGED <<cw2_n, cw2_buffer, cw2_last_successful_put>>
    /\ UNCHANGED <<q, q_unfinished>>
    /\ UNCHANGED writer_vars
    /\ UNCHANGED reader_vars
    /\ UNCHANGED factory_vars

\* Two Writers sending, one Reader receiving and draining its log.
TwoWriterNext ==
    \/ NewWriter2
    \/ Send
    \/ FlushPut
    \/ FlushFull
    \/ Send2
    \/ FlushPut2
    \/ FlushFull2
    \/ Recv
    \/ RecvFetch
    \/ FetchGet
    \/ FlushLog

TwoWriterSpec == Init /\ [][TwoWriterNext]_vars

\* ------------------------------------------------------------- claims
IsPrefix(s, t) == Len(s) <= Len(t) /\ \A i \in 1..Len(s) : s[i] = t[i]

\* The messages the Reader has fetched with their self-check passed: those it
\* returned and those waiting in its buffer, less the one whose assert failed.
FetchedOk ==
    Len(received) + Len(cr_buffer) - (IF cr_error = "AssertionError" THEN 1 ELSE 0)

\* Every record the Reader has appended to its log, drained or not, oldest first.
AllRecords == cb_log \o cr_log

C2_EventuallyAllDelivered == <>[](received = sent)

C2_Witness ==
    /\ abandoned_sent > 0
    /\ Len(sent) >= 3
    /\ received = sent

\* C3: a pass of flush() that meets a full queue, the pass that gives up
\* included, adds nothing to the queue, raises nothing and leaves the Writer's
\* buffer, n and last_successful_put as they were when the flush began, so the
\* next flush offers the same messages under the same sequence numbers.
C3_AbandonKeepsState ==
    [][(/\ cw_pc = "flush"
        /\ cw_retry' # cw_retry \/ cw_pc' # "flush"
        /\ ~(cw_pc' = "idle" /\ last_op' = "ok"))
       => /\ q' = q
          /\ cw_error' = "none"
          /\ cw_buffer' = flush_snap.buffer
          /\ cw_n' = flush_snap.n
          /\ cw_last_successful_put' = flush_snap.lsp
          /\ \A st \in Stamps(Len(cw_buffer'), MaxTime) :
                Envelopes(cw_buffer', cw_n', st)
                    = Envelopes(flush_snap.buffer, flush_snap.n, st)]_vars

C3_Witness ==
    /\ cw_pc = "idle"
    /\ last_op = "abandoned"
    /\ Len(cw_buffer) >= 2
    /\ cw_n >= 1

\* C4: a recv() that fetched a batch never ends for want of a payload to return.
C4_RecvYieldsPayload == cr_error # "IndexError"

\* C5: the assert of fetch(), n == len(self._log), never fails.
C5_SelfCheckNeverFails == cr_error # "AssertionError"

\* C6: at all times the envelopes taken off the queue carry, in fetch order,
\* the sequence numbers 0, 1, 2, ..., and the k-th payload sent carries
\* sequence k, in the queue and when fetched.
C6_SequenceGapless ==
    [](/\ \A i \in 1..Len(fetched) : fetched[i].n = i - 1 /\ fetched[i].obj = i - 1
       /\ \A b \in 1..Len(q) : \A j \in 1..Len(q[b]) : q[b][j].n = q[b][j].obj)

\* A batch that holds a payload of an abandoned flush together with a newer one
\* has crossed the queue.
C6_Witness ==
    /\ abandoned_sent > 0
    /\ \E b \in 1..Len(q) : \E j \in 1..(Len(q[b]) - 1) :
          /\ q[b][j].obj = abandoned_sent - 1
          /\ q[b][j + 1].obj = abandoned_sent
          /\ q[b][j].n = abandoned_sent - 1

C9_NothingStranded ==
    (/\ Len(sent) = MaxSend
     /\ cw_pc = "idle"
     /\ cr_pc = "get"
     /\ Len(received) < MaxSend)
    => q # <<>>

\* C10: a Writer call never waits and never raises: inside flush() a pass is
\* always possible, each pass either returns or moves `retry` one step towards
\* RETRY_FLUSH_ON_QUEUE_FULL, a pass that enqueues a batch returns, and whenever
\* the Writer is between calls every payload sent is in its buffer or was enqueued.
C10_WriterNeverBlocks ==
    /\ [](cw_pc = "flush" =>
            /\ cw_retry < RETRY_FLUSH_ON_QUEUE_FULL
            /\ ENABLED WriterPass)
    /\ [](cw_pc # "deleted" => cw_error = "none")
    /\ [](cw_pc = "idle" => cw_n + Len(cw_buffer) = Len(sent))
    /\ [][(cw_pc = "flush" /\ <<cw_pc, cw_retry, cw_n, cw_buffer>>' #
                                 <<cw_pc, cw_retry, cw_n, cw_buffer>>)
             => \/ cw_pc' = "idle" /\ cw_retry' = 0
                \/ cw_pc' = "flush" /\ cw_retry' = cw_retry + 1 /\ q' = q]_vars
    /\ [][Len(q') > Len(q)
             => cw_pc = "flush" /\ cw_pc' = "idle" /\ Len(q') = Len(q) + 1]_vars

C10_Witness ==
    /\ cw_pc = "idle"
    /\ last_op = "abandoned"
    /\ cw_n + Len(cw_buffer) = MaxSend
    /\ Len(q) >= Capacity

\* The payloads of a sequence of envelopes or of buffered (obj, s0) entries.
Objs(es) == [i \in 1..Len(es) |-> es[i].obj]

\* The envelopes in the queue, oldest batch first, each batch in its order.
RECURSIVE Flatten(_)
Flatten(batches) ==
    IF batches = <<>> THEN <<>> ELSE Head(batches) \o Flatten(Tail(batches))

\* C11: at all times every metering record, drained or still in the log, has
\* exactly the four fields s0, s1, t0, t1, each a reading of the clock, with
\* s0 <= s1 <= t1 and t0 <= t1.
C11_RecordTimesOrdered ==
    [](LET recs == AllRecords IN
       \A i \in 1..Len(recs) :
          LET r == recs[i] IN
          /\ DOMAIN r = {"s0", "s1", "t0", "t1"}
          /\ r.s0 >= SYSTEM_SEND_MAX_FREQUENCY
          /\ r.t0 >= SYSTEM_SEND_MAX_FREQUENCY
          /\ r.s0 <= r.s1
          /\ r.s1 <= r.t1
          /\ r.t0 <= r.t1)

\* The record of a payload that a flush gave up on and a later flush enqueued,
\* fetched by a recv() that was waiting before the payload was sent.
C11_Witness ==
    /\ abandoned_sent > 0
    /\ Len(AllRecords) >= abandoned_sent
    /\ AllRecords[abandoned_sent].s0 < AllRecords[abandoned_sent].s1
    /\ AllRecords[1].t0 < AllRecords[1].t1

\* C12: a step that hands records to the callback or shortens the log hands
\* over the whole log, oldest first, each record once, and leaves the log
\* empty; while the log is empty no step hands the callback anything.
C12_DrainHandsWholeLog ==
    [][/\ (cb_log' # cb_log \/ Len(cr_log') < Len(cr_log))
            => (cb_log' = cb_log \o cr_log /\ cr_log' = <<>>)
       /\ cr_log = <<>> => cb_log' = cb_log]_vars

C12_Witness ==
    /\ Len(cb_log) >= 2
    /\ cr_log = <<>>
    /\ cb_log[1].s0 < cb_log[2].s0
    /\ Len(received) >= 2

\* C13: once MeteredPipe has been called, with duplex it has raised
\* NotImplementedError, has created no queue and built no Reader or Writer,
\* given a queue or not, and nothing is ever sent or received; without duplex it
\* has returned a Reader and a Writer built on one and the same queue, the one
\* given if one was given.
C13_DuplexRefused ==
    mp_pc # "uncalled" =>
        /\ mp_duplex =>
              /\ mp_pc = "NotImplementedError"
              /\ q_made = 0
              /\ cr_q = "none" /\ cw_q = "none"
              /\ sent = <<>> /\ received = <<>> /\ q = <<>>
        /\ ~mp_duplex =>
              /\ mp_pc = "returned"
              /\ cr_q # "none"
              /\ cw_q = cr_q
              /\ mp_q = "given" => (cr_q = "given" /\ q_made = 0)

\* The call with duplex and a queue given has failed.
C13_Witness ==
    /\ mp_pc = "NotImplementedError"
    /\ mp_duplex
    /\ mp_q = "given"

\* C14 as stated, summed over the drains so far: after a drain that handed
\* something over, the records handed to callbacks number the recv() calls
\* completed.
C14_DrainCountsRecvCalls ==
    [][cb_log' # cb_log => Len(cb_log') = Len(received')]_vars

\* C14 as amended, summed over the drains so far: after a drain that handed
\* something over, the records handed to callbacks number the messages fetched:
\* the recv() calls completed and the payloads still in the delivery buffer.
C14_DrainCountsFetched ==
    [][cb_log' # cb_log => Len(cb_log') = Len(received') + Len(cr_buffer')]_vars

\* A drain that handed over more records than recv() calls had completed.
C14_Witness ==
    /\ cb_log # <<>>
    /\ cr_log = <<>>
    /\ cr_buffer # <<>>
    /\ Len(cb_log) = Len(received) + Len(cr_buffer)

\* C15: when recv() has returned payloads of both Writers, the Reader's assert
\* has failed.
C15_SecondWriterDetected ==
    ((\E i \in 1..Len(received) : received[i] >= 0)
        /\ (\E j \in 1..Len(received) : received[j] < 0))
    => cr_error = "AssertionError"

\* C16: a send() enters flush exactly when its s0 is not below
\* last_successful_put + SYSTEM_SEND_MAX_FREQUENCY, and otherwise returns with
\* the payload buffered; it does not touch the queue itself; with no successful
\* put yet it always enters flush; a flush that gives up leaves
\* last_successful_put, and with it the interval, as it was.
C16_SendFlushesWhenDue ==
    [][/\ Len(sent') = Len(sent) + 1 =>
            LET s0 == cw_buffer'[Len(cw_buffer')].s0 IN
            /\ q' = q
            /\ cw_buffer' = Append(cw_buffer, [obj |-> Len(sent), s0 |-> s0])
            /\ (cw_pc' = "flush" /\ cw_call' = "send")
                  <=> s0 - cw_last_successful_put >= SYSTEM_SEND_MAX_FREQUENCY
            /\ (cw_pc' = "idle" /\ cw_call' = "none")
                  <=> s0 - cw_last_successful_put < SYSTEM_SEND_MAX_FREQUENCY
            /\ cw_last_successful_put = 0 => cw_pc' = "flush"
       /\ (cw_pc = "flush" /\ cw_pc' = "idle" /\ last_op' # "ok")
            => cw_last_successful_put' = cw_last_successful_put]_vars

\* A send() that enters flush right after an abandoned flush, at a time when a
\* restarted interval would have made it buffer only.
C16_Witness ==
    /\ cw_pc = "flush"
    /\ cw_call = "send"
    /\ last_op = "abandoned"
    /\ cw_retry = 0
    /\ cw_buffer[Len(cw_buffer)].s0 = cw_buffer[Len(cw_buffer) - 1].s0

\* C17: the records a fetch appends to the log all carry the same t1.
C17_BatchSharesT1 ==
    [][\A i, j \in (Len(cr_log) + 1)..Len(cr_log') :
            cr_log'[i].t1 = cr_log'[j].t1]_vars

C19_CounterTracksEnqueued ==
    /\ [](cw_pc # "flush" =>
            /\ cw_n = Len(fetched) + Len(Flatten(q))
            /\ cw_n + Len(cw_buffer) = Len(sent))
    /\ [][Len(q') > Len(q) =>
            /\ Objs(q'[Len(q')]) = Objs(cw_buffer)
            /\ cw_n' = cw_n + Len(cw_buffer)
            /\ cw_buffer' = <<>>]_vars

C19_Witness ==
    /\ cw_pc = "idle"
    /\ last_op = "ok"
    /\ cw_n = 3
    /\ Len(q) = 1
    /\ Len(q[1]) = 2

\* C20: no batch in the queue is empty.
C20_NoEmptyBatch == \A b \in 1..Len(q) : q[b] # <<>>

=============================================================================
